---- MODULE Spec2Model ----
(* State-machine model of nsga-net/search/train_search.py: the single-genome  *)
(* evaluation pipeline main(), the training pass train() and the validation    *)
(* pass infer().  One Python thread; pc is the position of that thread, and    *)
(* entry is the function the process called: main, or train / infer directly. *)
EXTENDS Integers, Sequences, FiniteSets, TLC

(* ------------------------------ bounds ---------------------------------- *)
MaxEpochs == 2
MaxBatches == 2
MaxBatchSize == 2
MaxRng == 2
MaxSeed == 1
\* optimizer steps a network takes before a caller stops training it
MaxUpdates == 2
\* genomes are 0 .. MaxGenome
MaxGenome == 1

(* ------------------------- program constants ---------------------------- *)
\* learning rate in units of 1e-6 (0.025)
learning_rate == 25000
\* auxiliary_weight in tenths (0.4)
auxiliary_weight == 4
grad_clip == 5
report_freq == 50
\* number of parameters in train's signature, and of arguments main passes
TrainArity == 6
MainTrainArgc == 5
\* GradScaler() defaults: scale 2^16, growth window 2000 steps
init_scale_exp == 16
growth_interval == 2000

(* ------------------------- floating point ------------------------------- *)
\* Losses are non-negative numbers in tenths; NaN and Inf are the two
\* non-finite values a loss can take.
NaN == -1
Inf == -2
IsFinite(x) == x >= 0
FAdd(a, b) ==
    IF a = NaN \/ b = NaN THEN NaN
    ELSE IF a = Inf \/ b = Inf THEN Inf
    ELSE a + b
FMulWeight(w, x) ==
    IF x = NaN THEN NaN
    ELSE IF x = Inf THEN Inf
    ELSE (w * x) \div 10
LossValues == {0, 10, NaN, Inf}
\* nn.CrossEntropyLoss() averages over the batch: the loss summed over the n
\* examples of a batch is n times the value the criterion returns
ExampleLossSum(x, n) ==
    IF x = NaN THEN NaN
    ELSE IF x = Inf THEN Inf
    ELSE x * n

\* cos(pi * k / T) in units of 1e-4, for 0 <= k <= T <= 6
CosTable ==
    << <<10000, -10000>>,
       <<10000, 0, -10000>>,
       <<10000, 5000, -5000, -10000>>,
       <<10000, 7071, 0, -7071, -10000>>,
       <<10000, 8090, 3090, -3090, -8090, -10000>>,
       <<10000, 8660, 5000, 0, -5000, -8660, -10000>> >>
CosE4(k, T) == CosTable[T][k + 1]

\* CosineAnnealingLR with eta_min = 0: the rate after k scheduler steps
CosineAnnealingLR(k, T) ==
    IF k = 0 THEN learning_rate
    ELSE (learning_rate * (10000 + CosE4(k, T))) \div 20000

(* --------------------------- random generator --------------------------- *)
RngStates == 0 .. MaxRng
\* torch.manual_seed(seed): the generator state a seed establishes
manual_seed(s) == s
\* any draw from the generator moves it to another state
AdvanceRng(r) == (r + 1) % (MaxRng + 1)

(* ------------------------------ networks -------------------------------- *)
SearchSpaces == {"micro", "macro", "other"}
NoModel ==
    [built |-> FALSE, arch |-> "none", init |-> 0, updates |-> 0,
     training |-> TRUE, flops_methods |-> FALSE, flops_hooks |-> FALSE,
     flops_acc |-> 0]
\* Network(...) / EvoNetwork(...): the parameters are initialised from the
\* generator state at construction time; a new module is in training mode
NewNetwork(arch, r) ==
    [built |-> TRUE, arch |-> arch, init |-> r, updates |-> 0,
     training |-> TRUE, flops_methods |-> FALSE, flops_hooks |-> FALSE,
     flops_acc |-> 0]
\* sum of the sizes of the trainable tensors, a property of the architecture
CountParams(m) == IF m.arch = "micro" THEN 3 ELSE 2
\* multiply-accumulates of one forward pass, a property of the architecture
ForwardFlops(m) == IF m.arch = "micro" THEN 7 ELSE 5

\* misc.flops_counter
add_flops_counting_methods(m) == [m EXCEPT !.flops_methods = TRUE, !.flops_acc = 0]
start_flops_count(m) == [m EXCEPT !.flops_hooks = TRUE]
\* a forward pass: the hooks, when attached, accumulate the op count
Forward(m) ==
    IF m.flops_hooks THEN [m EXCEPT !.flops_acc = @ + ForwardFlops(m)] ELSE m
compute_average_flops_cost(m) == m.flops_acc

(* ------------------------------ the state ------------------------------- *)
VARIABLES
    pc,          \* position of the thread
    entry,       \* the function the process called: "main", "train", "infer"
    error,       \* the exception that ended the call, "" when none
    args,        \* the arguments of main
    rng,         \* process-wide torch generator state
    dirCreated,  \* the experiment directory exists
    logFile,     \* content of {expr_root}/{save}/log.txt, <<>> when absent
    wroteLog,    \* this call of main wrote log.txt
    peer,        \* a call of main for another genome in another process, on
                 \* the same file system
    twin,        \* generator and initial parameters of a second run of main
                 \* with the same arguments, started in another generator state
    model,       \* the network
    lr,          \* optimizer learning rate (1e-6 units)
    last_epoch,  \* scheduler.last_epoch
    epoch,       \* loop variable of main
    n_params, n_flops, valid,   \* locals of main
    result,      \* <<record>> once main has returned
    trainCalls,  \* train calls made by this call of main
    trainReturns,\* ... that have returned
    inferCalls,  \* infer calls made by this call of main
    preProfile,  \* the network as it was when FLOP profiling started
    tr,          \* frame of train
    inf,         \* frame of infer
    ret          \* <<value>> returned by the last train / infer

vars == <<pc, entry, error, args, rng, dirCreated, peer, logFile, wroteLog,
          twin, model, lr, last_epoch, epoch, n_params, n_flops, valid,
          result, trainCalls, trainReturns, inferCalls, preProfile, tr, inf, ret>>

NoArgs ==
    [genome |-> 0, epochs |-> 0, search_space |-> "micro", save |-> "Design_1",
     seed |-> 0, auxiliary |-> FALSE]
\* the other call of main: its position, its genome and save arguments, and
\* its log.txt when that is another file than this call's
NoPeer == [pc |-> "idle", genome |-> 0, save |-> "Design_1", log |-> <<>>]
NoTrain ==
    [params |-> [auxiliary |-> FALSE], stream |-> <<>>, step |-> 0,
     train_loss |-> 0, correct |-> 0, total |-> 0,
     scale_exp |-> init_scale_exp, growth_tracker |-> 0,
     grads |-> "none", grad_finite |-> TRUE, found_inf |-> FALSE,
     loss |-> 0, nan_batches |-> 0, example_loss |-> 0,
     prev_scale_exp |-> init_scale_exp,
     trace |-> <<>>, loss_main |-> 0, loss_aux |-> 0, clipped_on |-> "none",
     updates_before |-> 0, scale_before |-> init_scale_exp]
NoInfer ==
    [stream |-> <<>>, step |-> 0, test_loss |-> 0, correct |-> 0, total |-> 0,
     example_loss |-> 0]

Init ==
    /\ pc = "idle" /\ entry = "none" /\ error = ""
    /\ args = NoArgs
    /\ rng = 0
    /\ dirCreated = FALSE /\ logFile = <<>> /\ wroteLog = FALSE
    /\ peer = NoPeer
    /\ twin = [rng |-> 0, init |-> 0]
    /\ model = NoModel
    /\ lr = 0 /\ last_epoch = 0 /\ epoch = 0
    /\ n_params = 0 /\ n_flops = 0 /\ valid = <<>>
    /\ result = <<>>
    /\ trainCalls = 0 /\ trainReturns = 0 /\ inferCalls = 0
    /\ preProfile = NoModel
    /\ tr = NoTrain /\ inf = NoInfer /\ ret = <<>>

Raise(e) == pc' = "raised" /\ error' = e

\* the finite streams of (inputs, targets) batches, each as the sequence of
\* its batch sizes
Streams ==
    UNION {[1 .. n -> 1 .. MaxBatchSize] : n \in 0 .. MaxBatches}
\* the DataLoader queues main builds over the fixed CIFAR-10 sets: full
\* batches of batch_size examples, then a last, smaller one
MainQueue == [i \in 1 .. MaxBatches |-> IF i < MaxBatches THEN MaxBatchSize ELSE 1]
RECURSIVE SumSeq(_)
SumSeq(q) == IF q = <<>> THEN 0 ELSE q[1] + SumSeq(Tail(q))

(* ================================ main ================================== *)
\* the genomes a caller evaluates
Genomes == 0 .. MaxGenome
\* values of the save argument: the default and another one
Saves == {"Design_1", "Design_2"}

\* the five lines main writes to log.txt
Summary(genome, genotype, params, flops, valid_acc) ==
    [genome |-> genome, arch |-> genotype, params |-> params,
     flops |-> flops, valid_acc |-> valid_acc]

\* the dict main passes to train as params
MainTrainParams(aux) ==
    [auxiliary |-> aux, auxiliary_weight |-> auxiliary_weight,
     grad_clip |-> grad_clip, report_freq |-> report_freq]

\* main(genome, epochs, search_space, ..., seed, ..., auxiliary, ...): the
\* process has drawn from the generator any number of times before the call
CallMain ==
    /\ pc = "idle"
    /\ \E g \in Genomes, e \in 0 .. MaxEpochs, ss \in SearchSpaces,
          sv \in Saves, s \in 0 .. MaxSeed, a \in BOOLEAN :
          args' = [genome |-> g, epochs |-> e, search_space |-> ss,
                   save |-> sv, seed |-> s, auxiliary |-> a]
    /\ \E r \in RngStates : rng' = r
    /\ \E r \in RngStates : twin' = [rng |-> r, init |-> 0]
    /\ pc' = "m_start" /\ entry' = "main"
    /\ UNCHANGED <<error, dirCreated, peer, logFile, wroteLog, model,
                   lr, last_epoch, epoch, n_params, n_flops, valid, result,
                   trainCalls, trainReturns, inferCalls, preProfile, tr, inf, ret>>

\* utils.create_exp_dir(save_pth)
MainCreateExpDir ==
    /\ pc = "m_start"
    /\ dirCreated' = TRUE
    /\ pc' = "m_build"
    /\ UNCHANGED <<entry, error, args, rng, logFile, wroteLog, twin, model,
                   lr, last_epoch, epoch, n_params, n_flops, valid, result,
                   trainCalls, trainReturns, inferCalls, preProfile, tr, inf,
                   ret, peer>>

\* the dispatch with its last branch building a network instead of raising
KnownSearchSpace_any(ss) == TRUE

\* if search_space == 'micro' ... elif search_space == 'macro' ...
KnownSearchSpace(ss) == ss \in {"micro", "macro"}

\* the dispatch on search_space: decode the genome and construct the network
MainBuild ==
    /\ pc = "m_build"
    /\ IF KnownSearchSpace(args.search_space)
       THEN /\ model' = NewNetwork(args.search_space, rng)
            /\ rng' = AdvanceRng(rng)
            /\ twin' = [rng |-> AdvanceRng(twin.rng),
                        init |-> NewNetwork(args.search_space, twin.rng).init]
            /\ pc' = "m_seed"
            /\ UNCHANGED error
       ELSE /\ Raise("NameError")
            /\ UNCHANGED <<model, rng, twin>>
    /\ UNCHANGED <<entry, args, dirCreated, peer, logFile, wroteLog,
                   lr, last_epoch, epoch, n_params, n_flops, valid, result,
                   trainCalls, trainReturns, inferCalls, preProfile, tr, inf, ret>>

\* torch.manual_seed(seed); torch.cuda.manual_seed(seed)
MainSeed ==
    /\ pc = "m_seed"
    /\ rng' = manual_seed(args.seed)
    /\ twin' = [twin EXCEPT !.rng = manual_seed(args.seed)]
    /\ pc' = "m_setup"
    /\ UNCHANGED <<entry, error, args, dirCreated, peer, logFile, wroteLog,
                   model, lr, last_epoch, epoch, n_params, n_flops, valid, result,
                   trainCalls, trainReturns, inferCalls, preProfile, tr, inf, ret>>

\* n_params, the SGD optimizer, the data loaders and the scheduler
MainSetup ==
    /\ pc = "m_setup"
    /\ n_params' = CountParams(model)
    /\ lr' = learning_rate
    /\ last_epoch' = 0
    /\ epoch' = 0
    /\ pc' = "m_loop"
    /\ UNCHANGED <<entry, error, args, rng, dirCreated, peer, logFile, wroteLog,
                   twin, model, n_flops, valid, result,
                   trainCalls, trainReturns, inferCalls, preProfile, tr, inf, ret>>

\* the loop running one epoch short: range(epochs - 1)
MoreEpochs_one_short(e, n) == e < n - 1

\* for epoch in range(epochs)
MoreEpochs(e, n) == e < n

\* head of the epoch loop: scheduler.step(), or leave the loop
MainEpoch ==
    /\ pc = "m_loop"
    /\ IF MoreEpochs(epoch, args.epochs)
       THEN /\ last_epoch' = last_epoch + 1
            /\ lr' = CosineAnnealingLR(last_epoch + 1, args.epochs)
            /\ pc' = "m_call_train"
       ELSE /\ pc' = "m_call_infer"
            /\ UNCHANGED <<last_epoch, lr>>
    /\ UNCHANGED <<entry, error, args, rng, dirCreated, peer, logFile, wroteLog,
                   twin, model, epoch, n_params, n_flops, valid, result,
                   trainCalls, trainReturns, inferCalls, preProfile, tr, inf, ret>>

\* train(train_queue, model, criterion, optimizer, train_params)
MainCallTrain ==
    /\ pc = "m_call_train"
    /\ IF MainTrainArgc = TrainArity
       THEN /\ tr' = [NoTrain EXCEPT !.params = MainTrainParams(args.auxiliary),
                                      !.stream = MainQueue]
            /\ trainCalls' = trainCalls + 1
            /\ pc' = "t_enter"
            /\ UNCHANGED error
       ELSE /\ Raise("TypeError")
            /\ UNCHANGED <<tr, trainCalls>>
    /\ UNCHANGED <<entry, args, rng, dirCreated, peer, logFile, wroteLog, twin,
                   model, lr, last_epoch, epoch, n_params, n_flops, valid, result,
                   trainReturns, inferCalls, preProfile, inf, ret>>

\* infer(valid_queue, model, criterion)
MainCallInfer ==
    /\ pc = "m_call_infer"
    /\ inf' = [NoInfer EXCEPT !.stream = MainQueue]
    /\ inferCalls' = inferCalls + 1
    /\ pc' = "i_enter"
    /\ UNCHANGED <<entry, error, args, rng, dirCreated, peer, logFile, wroteLog,
                   twin, model, lr, last_epoch, epoch, n_params, n_flops,
                   valid, result, trainCalls, trainReturns, preProfile, tr, ret>>

\* add_flops_counting_methods(model); model.eval(); model.start_flops_count()
MainInstrument ==
    /\ pc = "m_flops"
    /\ preProfile' = model
    /\ model' = start_flops_count(
                   [add_flops_counting_methods(model) EXCEPT !.training = FALSE])
    /\ pc' = "m_profile"
    /\ UNCHANGED <<entry, error, args, rng, dirCreated, peer, logFile, wroteLog,
                   twin, lr, last_epoch, epoch, n_params, n_flops, valid,
                   result, trainCalls, trainReturns, inferCalls, tr, inf, ret>>

\* random_data = torch.randn(1, 3, 32, 32); model(random_data)
MainProfileForward ==
    /\ pc = "m_profile"
    /\ rng' = AdvanceRng(rng)
    /\ \E ok \in BOOLEAN :
          IF ok
          THEN /\ model' = Forward(model)
               /\ pc' = "m_flops_cost"
               /\ UNCHANGED error
          ELSE /\ Raise("RuntimeError")
               /\ UNCHANGED model
    /\ UNCHANGED <<entry, args, dirCreated, peer, logFile, wroteLog, twin,
                   lr, last_epoch, epoch, n_params, n_flops, valid, result,
                   trainCalls, trainReturns, inferCalls, preProfile, tr, inf, ret>>

\* n_flops = np.round(model.compute_average_flops_cost() / 1e6, 4)
MainComputeFlops ==
    /\ pc = "m_flops_cost"
    /\ n_flops' = compute_average_flops_cost(model)
    /\ pc' = "m_write"
    /\ UNCHANGED <<entry, error, args, rng, dirCreated, peer, logFile, wroteLog,
                   twin, model, lr, last_epoch, epoch, n_params, valid,
                   result, trainCalls, trainReturns, inferCalls, preProfile,
                   tr, inf, ret>>

\* with open(os.path.join(save_pth, 'log.txt'), "w") as file: file.write(...)
MainWriteLog ==
    /\ pc = "m_write"
    /\ \E ok \in BOOLEAN :
          IF ok
          THEN /\ logFile' = <<Summary(args.genome, model.arch, n_params,
                                        n_flops, valid[1].acc)>>
               /\ wroteLog' = TRUE
               /\ pc' = "m_return"
               /\ UNCHANGED error
          ELSE /\ Raise("OSError")
               /\ UNCHANGED <<logFile, wroteLog>>
    /\ UNCHANGED <<entry, args, rng, dirCreated, peer, twin, model,
                   lr, last_epoch, epoch, n_params, n_flops, valid, result,
                   trainCalls, trainReturns, inferCalls, preProfile, tr, inf, ret>>

\* return {'valid_acc': valid_acc, 'params': n_params, 'flops': n_flops}
MainReturn ==
    /\ pc = "m_return"
    /\ result' = <<[valid_acc |-> valid[1].acc, params |-> n_params,
                    flops |-> n_flops]>>
    /\ pc' = "returned"
    /\ UNCHANGED <<entry, error, args, rng, dirCreated, peer, logFile, wroteLog,
                   twin, model, lr, last_epoch, epoch, n_params, n_flops,
                   valid, trainCalls, trainReturns, inferCalls, preProfile,
                   tr, inf, ret>>

(* ========================= a second call of main ======================== *)
PeerFrame ==
    UNCHANGED <<pc, entry, error, args, rng, wroteLog, twin, model, lr,
                last_epoch, epoch, n_params, n_flops, valid, result,
                trainCalls, trainReturns, inferCalls, preProfile, tr, inf, ret>>

\* main(genome', 0, save=...) called in another process while this call runs
PeerCallMain ==
    /\ entry = "main" /\ peer.pc = "idle"
    /\ \E g \in Genomes \ {args.genome}, sv \in Saves :
          peer' = [NoPeer EXCEPT !.pc = "m_start", !.genome = g, !.save = sv]
    /\ UNCHANGED <<dirCreated, logFile>>
    /\ PeerFrame

\* the other call: utils.create_exp_dir(save_pth)
PeerCreateExpDir ==
    /\ peer.pc = "m_start"
    /\ dirCreated' = (dirCreated \/ peer.save = args.save)
    /\ peer' = [peer EXCEPT !.pc = "m_write"]
    /\ UNCHANGED logFile
    /\ PeerFrame

\* the other call, after its own build, evaluation and profiling:
\* with open(os.path.join(save_pth, 'log.txt'), "w") as file: file.write(...)
PeerWriteLog ==
    /\ peer.pc = "m_write"
    /\ \E c \in {0, SumSeq(MainQueue)} :
          LET m == NewNetwork("micro", 0)
              summary == Summary(peer.genome, m.arch, CountParams(m),
                                 ForwardFlops(m),
                                 [num |-> 100 * c, den |-> SumSeq(MainQueue)])
          IN  IF peer.save = args.save
              THEN /\ logFile' = <<summary>>
                   /\ peer' = [peer EXCEPT !.pc = "returned"]
              ELSE /\ peer' = [peer EXCEPT !.pc = "returned", !.log = <<summary>>]
                   /\ UNCHANGED logFile
    /\ UNCHANGED dirCreated
    /\ PeerFrame

(* ================================ train ================================= *)
\* the dicts a caller can pass as params: the one main builds, with or
\* without a log_interval entry
DirectParams ==
    {MainTrainParams(a) : a \in BOOLEAN} \cup
    {[auxiliary |-> a, auxiliary_weight |-> auxiliary_weight,
      grad_clip |-> grad_clip, report_freq |-> report_freq,
      log_interval |-> report_freq] : a \in BOOLEAN}

\* train(train_queue, net, criterion, optimizer, params, device), called
\* with its six arguments on a network and an optimizer of the caller
TrainCallDirect ==
    /\ pc = "idle"
    /\ \E p \in DirectParams, q \in Streams :
          tr' = [NoTrain EXCEPT !.params = p, !.stream = q]
    /\ \E t \in BOOLEAN : model' = [NewNetwork("micro", 0) EXCEPT !.training = t]
    /\ lr' = learning_rate
    /\ entry' = "train" /\ pc' = "t_enter"
    /\ UNCHANGED <<error, args, rng, dirCreated, peer, logFile, wroteLog, twin,
                   last_epoch, epoch, n_params, n_flops, valid, result,
                   trainCalls, trainReturns, inferCalls, preProfile, inf, ret>>

\* the next epoch of the caller's loop: train called again with the same
\* queue, network, optimizer and params, while the scaler of the call before
\* is still as that call left it
TrainCallAgain ==
    /\ pc = "returned" /\ entry = "train"
    /\ model.updates + Len(tr.stream) <= MaxUpdates
    /\ tr' = [NoTrain EXCEPT !.params = tr.params, !.stream = tr.stream,
                             !.scale_exp = tr.scale_exp,
                             !.growth_tracker = tr.growth_tracker,
                             !.prev_scale_exp = tr.scale_exp,
                             !.updates_before = model.updates]
    /\ ret' = <<>>
    /\ pc' = "t_enter"
    /\ UNCHANGED <<entry, error, args, rng, dirCreated, peer, logFile, wroteLog,
                   twin, model, lr, last_epoch, epoch, n_params, n_flops,
                   valid, result, trainCalls, trainReturns, inferCalls,
                   preProfile, inf>>

\* a scaler that is the one of the call before
NewGradScaler_shared(t) == t

\* scaler = GradScaler(): scale 2^16, no overflow-free step counted yet
NewGradScaler(t) ==
    [t EXCEPT !.scale_exp = init_scale_exp, !.growth_tracker = 0]

\* net.train(); train_loss = correct = total = 0; scaler = GradScaler()
TrainEnter ==
    /\ pc = "t_enter"
    /\ model' = [model EXCEPT !.training = TRUE]
    /\ tr' = [NewGradScaler(tr) EXCEPT !.train_loss = 0, !.correct = 0,
                                       !.total = 0, !.step = 0,
                                       !.nan_batches = 0, !.example_loss = 0]
    /\ pc' = "t_loop"
    /\ UNCHANGED <<entry, error, args, rng, dirCreated, peer, logFile, wroteLog,
                   twin, lr, last_epoch, epoch, n_params, n_flops, valid,
                   result, trainCalls, trainReturns, inferCalls, preProfile,
                   inf, ret>>

TrainFrame ==
    UNCHANGED <<entry, args, rng, dirCreated, peer, logFile, wroteLog,
                twin, lr, last_epoch, epoch, n_params, n_flops, valid,
                result, trainCalls, trainReturns, inferCalls, preProfile,
                inf, ret>>

\* next batch of the stream; optimizer.zero_grad()
TrainZeroGrad ==
    /\ pc = "t_loop"
    /\ tr.step < Len(tr.stream)
    /\ tr' = [tr EXCEPT !.grads = "zero", !.found_inf = FALSE,
                        !.trace = <<"zero_grad">>, !.clipped_on = "none",
                        !.updates_before = model.updates,
                        !.scale_before = tr.scale_exp]
    /\ pc' = "t_forward"
    /\ UNCHANGED <<error, model>>
    /\ TrainFrame

\* the loss of the batch: the primary loss, plus auxiliary_weight times the
\* auxiliary loss when params['auxiliary'] is set
BatchLoss(params, loss, loss_aux) ==
    IF params.auxiliary
    THEN FAdd(loss, FMulWeight(params.auxiliary_weight, loss_aux))
    ELSE loss

\* with autocast(): outputs, outputs_aux = net(inputs); loss = criterion(...)
TrainForward ==
    /\ pc = "t_forward"
    /\ \E loss \in LossValues :
          \E loss_aux \in (IF tr.params.auxiliary THEN LossValues ELSE {0}) :
             tr' = [tr EXCEPT !.loss = BatchLoss(tr.params, loss, loss_aux),
                              !.loss_main = loss, !.loss_aux = loss_aux,
                              !.trace = Append(@, "forward")]
    /\ model' = Forward(model)
    /\ pc' = "t_backward"
    /\ UNCHANGED error
    /\ TrainFrame

\* scaler.scale(loss).backward(): the gradients of the scaled loss; they are
\* non-finite when the loss is, and may overflow in half precision otherwise
\* (the two criterion values are recorded up to here, where their sum is used)
TrainBackward ==
    /\ pc = "t_backward"
    /\ \E overflow \in BOOLEAN :
          tr' = [tr EXCEPT !.grads = "scaled",
                           !.grad_finite = IsFinite(tr.loss) /\ ~overflow,
                           !.loss_main = 0, !.loss_aux = 0,
                           !.trace = Append(@, "backward")]
    /\ pc' = "t_unscale"
    /\ UNCHANGED <<error, model>>
    /\ TrainFrame

\* an unscale step that leaves the gradients multiplied by the scale
ScalerUnscale_skipped(g) == g

\* GradScaler.unscale_: the gradients divided by the scale
ScalerUnscale(g) == "unscaled"

\* scaler.unscale_(optimizer): divide the gradients by the scale, record
\* whether any of them is inf or NaN
TrainUnscale ==
    /\ pc = "t_unscale"
    /\ tr' = [tr EXCEPT !.grads = ScalerUnscale(@), !.found_inf = ~tr.grad_finite,
                        !.trace = Append(@, "unscale")]
    /\ pc' = "t_clip"
    /\ UNCHANGED <<error, model>>
    /\ TrainFrame

\* nn.utils.clip_grad_norm_(net.parameters(), params['grad_clip'])
TrainClip ==
    /\ pc = "t_clip"
    /\ tr' = [tr EXCEPT !.grads = "clipped", !.clipped_on = tr.grads,
                        !.trace = Append(@, "clip")]
    /\ pc' = "t_step"
    /\ UNCHANGED <<error, model>>
    /\ TrainFrame

\* GradScaler.step: optimizer.step() unless an inf/NaN gradient was found
ScalerStep(m, found_inf) ==
    IF found_inf THEN m ELSE [m EXCEPT !.updates = @ + 1]

\* scaler.step(optimizer)
TrainStep ==
    /\ pc = "t_step"
    /\ model' = ScalerStep(model, tr.found_inf)
    /\ tr' = [tr EXCEPT !.trace = Append(@, "step")]
    /\ pc' = "t_update"
    /\ UNCHANGED error
    /\ TrainFrame

\* GradScaler.update: halve the scale after an overflow, double it after
\* growth_interval consecutive steps without one
ScalerUpdate(t) ==
    IF t.found_inf
    THEN [t EXCEPT !.scale_exp = @ - 1, !.growth_tracker = 0]
    ELSE IF t.growth_tracker + 1 = growth_interval
    THEN [t EXCEPT !.scale_exp = @ + 1, !.growth_tracker = 0]
    ELSE [t EXCEPT !.growth_tracker = @ + 1]

\* scaler.update()
TrainUpdate ==
    /\ pc = "t_update"
    /\ tr' = [ScalerUpdate(tr) EXCEPT !.trace = Append(@, "update")]
    /\ pc' = "t_accum"
    /\ UNCHANGED <<error, model>>
    /\ TrainFrame

\* train_loss += loss.item(); total += targets.size(0);
\* correct += predicted.eq(targets).sum().item(), between 0 and the batch size
TrainAccum ==
    /\ pc = "t_accum"
    /\ \E c \in 0 .. tr.stream[tr.step + 1] :
       tr' = [tr EXCEPT !.train_loss = FAdd(@, tr.loss),
                        !.total = @ + tr.stream[tr.step + 1],
                        !.correct = @ + c,
                        !.nan_batches = @ + (IF tr.loss = NaN THEN 1 ELSE 0),
                        !.example_loss =
                            FAdd(@, ExampleLossSum(tr.loss, tr.stream[tr.step + 1]))]
    /\ pc' = "t_report"
    /\ UNCHANGED <<error, model>>
    /\ TrainFrame

\* if step % params['log_interval'] == 0: print(...)
TrainReport ==
    /\ pc = "t_report"
    /\ IF "log_interval" \in DOMAIN tr.params
       THEN /\ tr' = [tr EXCEPT !.step = @ + 1]
            /\ pc' = "t_loop"
            /\ UNCHANGED error
       ELSE /\ Raise("KeyError")
            /\ UNCHANGED tr
    /\ UNCHANGED model
    /\ TrainFrame

\* a quotient of two numbers, kept exact
Ratio(n, d) == [num |-> n, den |-> d]

\* return 100. * correct / total, train_loss / total
TrainReturn ==
    /\ pc = "t_loop"
    /\ tr.step = Len(tr.stream)
    /\ IF tr.total = 0
       THEN /\ Raise("ZeroDivisionError")
            /\ UNCHANGED <<ret, epoch, trainReturns>>
       ELSE /\ ret' = <<[acc |-> Ratio(100 * tr.correct, tr.total),
                         loss |-> Ratio(tr.train_loss, tr.total)]>>
            /\ UNCHANGED error
            /\ IF entry = "main"
               THEN /\ trainReturns' = trainReturns + 1
                    /\ epoch' = epoch + 1
                    /\ pc' = "m_loop"
               ELSE /\ pc' = "returned"
                    /\ UNCHANGED <<epoch, trainReturns>>
    /\ UNCHANGED <<entry, args, rng, dirCreated, peer, logFile, wroteLog, twin,
                   model, lr, last_epoch, n_params, n_flops, valid, result,
                   trainCalls, inferCalls, preProfile, tr, inf>>

(* ================================ infer ================================= *)
\* infer(valid_queue, net, criterion) called on a network of the caller
InferCallDirect ==
    /\ pc = "idle"
    /\ \E q \in Streams : inf' = [NoInfer EXCEPT !.stream = q]
    /\ \E t \in BOOLEAN : model' = [NewNetwork("micro", 0) EXCEPT !.training = t]
    /\ lr' = learning_rate
    /\ entry' = "infer" /\ pc' = "i_enter"
    /\ UNCHANGED <<error, args, rng, dirCreated, peer, logFile, wroteLog, twin,
                   last_epoch, epoch, n_params, n_flops, valid, result,
                   trainCalls, trainReturns, inferCalls, preProfile, tr, ret>>

InferFrame ==
    UNCHANGED <<entry, error, args, rng, dirCreated, peer, logFile, wroteLog,
                twin, lr, last_epoch, epoch, n_params, n_flops, valid,
                result, trainCalls, trainReturns, inferCalls, preProfile,
                tr, ret>>

\* net.eval(); test_loss = correct = total = 0
InferEnter ==
    /\ pc = "i_enter"
    /\ model' = [model EXCEPT !.training = FALSE]
    /\ inf' = [inf EXCEPT !.test_loss = 0, !.correct = 0, !.total = 0, !.step = 0,
                          !.example_loss = 0]
    /\ pc' = "i_loop"
    /\ InferFrame

\* a forward pass of infer that also steps the parameters
InferForward_trains(m) == [Forward(m) EXCEPT !.updates = @ + 1]

\* with torch.no_grad(): outputs, _ = net(inputs)
InferForward(m) == Forward(m)

\* one batch under torch.no_grad(): forward, loss, accumulate
InferBatch ==
    /\ pc = "i_loop"
    /\ inf.step < Len(inf.stream)
    /\ \E loss \in LossValues, c \in 0 .. inf.stream[inf.step + 1] :
          inf' = [inf EXCEPT !.test_loss = FAdd(@, loss),
                             !.example_loss =
                                 FAdd(@, ExampleLossSum(loss, inf.stream[inf.step + 1])),
                             !.total = @ + inf.stream[inf.step + 1],
                             !.correct = @ + c,
                             !.step = @ + 1]
    /\ model' = InferForward(model)
    /\ UNCHANGED pc
    /\ InferFrame

\* acc = 100. * correct / total; return acc, test_loss / total
InferReturn ==
    /\ pc = "i_loop"
    /\ inf.step = Len(inf.stream)
    /\ IF inf.total = 0
       THEN /\ Raise("ZeroDivisionError")
            /\ UNCHANGED <<ret, valid>>
       ELSE /\ ret' = <<[acc |-> Ratio(100 * inf.correct, inf.total),
                         loss |-> Ratio(inf.test_loss, inf.total)]>>
            /\ UNCHANGED error
            /\ IF entry = "main"
               THEN /\ valid' = <<[acc |-> Ratio(100 * inf.correct, inf.total),
                                   loss |-> Ratio(inf.test_loss, inf.total)]>>
                    /\ pc' = "m_flops"
               ELSE /\ pc' = "returned"
                    /\ UNCHANGED valid
    /\ UNCHANGED <<entry, args, rng, dirCreated, peer, logFile, wroteLog, twin,
                   model, lr, last_epoch, epoch, n_params, n_flops, result,
                   trainCalls, trainReturns, inferCalls, preProfile, tr, inf>>

(* ============================ specification ============================= *)
Next ==
    \/ CallMain \/ MainCreateExpDir \/ MainBuild \/ MainSeed \/ MainSetup
    \/ MainEpoch \/ MainCallTrain \/ MainCallInfer \/ MainInstrument
    \/ MainProfileForward \/ MainComputeFlops \/ MainWriteLog \/ MainReturn
    \/ TrainCallDirect \/ TrainCallAgain \/ TrainEnter \/ TrainZeroGrad \/ TrainForward
    \/ TrainBackward \/ TrainUnscale \/ TrainClip \/ TrainStep \/ TrainUpdate
    \/ TrainAccum \/ TrainReport \/ TrainReturn
    \/ InferCallDirect \/ InferEnter \/ InferBatch \/ InferReturn

Spec == Init /\ [][Next]_vars

\* two calls of main in two processes on one file system
NextPair ==
    \/ CallMain \/ MainCreateExpDir \/ MainBuild \/ MainSeed \/ MainSetup
    \/ MainEpoch \/ MainCallTrain \/ MainCallInfer \/ MainInstrument
    \/ MainProfileForward \/ MainComputeFlops \/ MainWriteLog \/ MainReturn
    \/ InferEnter \/ InferBatch \/ InferReturn
    \/ PeerCallMain \/ PeerCreateExpDir \/ PeerWriteLog

SpecPair == Init /\ [][NextPair]_vars

(* =============================== claims ================================ *)
InTrain == {"t_enter", "t_loop", "t_forward", "t_backward", "t_unscale",
            "t_clip", "t_step", "t_update", "t_accum", "t_report"}
InInfer == {"i_enter", "i_loop"}
\* failures of the environment: the profiling forward pass, the file system
EnvironmentErrors == {"RuntimeError", "OSError"}
InPercent(r) == r.den > 0 /\ 0 <= r.num /\ r.num <= 100 * r.den

\* C1: a call of main on a valid micro genome with epochs >= 1 and the
\* auxiliary head disabled completes: it does not end in an error of the
\* program itself, and the record it returns has an accuracy in [0,100]
\* and positive parameter and flop counts.
C1_MainCompletes ==
    (entry = "main" /\ args.search_space = "micro" /\ args.epochs >= 1
       /\ ~args.auxiliary)
    => /\ pc = "raised" => error \in EnvironmentErrors
       /\ pc = "returned" =>
             /\ Len(result) = 1
             /\ InPercent(result[1].valid_acc)
             /\ result[1].params > 0 /\ result[1].flops > 0

C3_UnknownSearchSpaceFailsFast ==
    (entry = "main" /\ args.search_space \notin {"micro", "macro"})
    => /\ pc \in {"m_start", "m_build", "raised"}
       /\ pc = "raised" => error = "NameError"
       /\ ~model.built
       /\ trainCalls = 0 /\ inferCalls = 0
       /\ ~wroteLog /\ logFile = <<>> /\ Len(result) = 0

\* main has raised on an unknown search space
C3_Raised ==
    /\ entry = "main" /\ args.search_space = "other"
    /\ pc = "raised" /\ error = "NameError" /\ dirCreated

\* C4: the rate in effect when epoch 0 is trained is the configured
\* learning_rate; while an epoch is trained the rate is the one set at its
\* start; the rate of an epoch is not above the rate of the epoch before.
C4_LearningRateSchedule ==
    entry = "main" =>
       /\ (pc \in InTrain \cup {"m_call_train"} /\ epoch = 0) =>
             lr = learning_rate
       /\ pc \in InTrain \cup {"m_call_train"} =>
             lr = CosineAnnealingLR(last_epoch, args.epochs)
       /\ (pc \in InTrain \cup {"m_call_train"} /\ epoch >= 1) =>
             lr <= CosineAnnealingLR(last_epoch - 1, args.epochs)

\* C5: a train call in which the loss of every batch was NaN does not return
\* an (accuracy, mean loss) pair: it ends by raising TrainingDiverged.
C5_DivergedEpochRaises ==
    (entry \in {"main", "train"} /\ Len(tr.stream) > 0
       /\ tr.step = Len(tr.stream) /\ tr.nan_batches = Len(tr.stream))
    => /\ Len(ret) = 0
       /\ pc \notin {"returned", "m_loop"}

\* C6: in train, a batch whose gradients are found inf/NaN leaves the
\* parameters as they were before the batch, leaves the loss scale strictly
\* smaller after the scale update, and does not end the loop: train goes on
\* to the next batch.
C6_OverflowRecovered ==
    (entry \in {"main", "train"} /\ tr.found_inf)
    => /\ pc \in {"t_update", "t_accum", "t_report", "raised"} =>
             model.updates = tr.updates_before
       /\ pc \in {"t_accum", "t_report", "raised"} =>
             tr.scale_exp < tr.scale_before
       /\ pc # "raised"

\* C7: once training, evaluation and profiling have succeeded, a failure to
\* write log.txt is not raised: main does not end in an error.
C7_SummaryFailureRecovered ==
    (entry = "main" /\ Len(valid) = 1 /\ n_flops > 0) => pc # "raised"

\* C8: once the profiling forward pass has finished or failed, the network
\* is as it was just before profiling started: no flops-counting methods or
\* hooks attached, same parameters, same train/eval mode.
C8_ProfilingTransparent ==
    (entry = "main"
       /\ \/ pc \in {"m_flops_cost", "m_write", "m_return", "returned"}
          \/ pc = "raised" /\ error \in EnvironmentErrors)
    => /\ ~model.flops_methods /\ ~model.flops_hooks
       /\ model.init = preProfile.init /\ model.updates = preProfile.updates
       /\ model.training = preProfile.training

\* C9: infer ends by returning, for every finite stream, the empty one
\* included; its total is then the sum of the batch sizes of the stream,
\* its correct count lies between 0 and the total, and the accuracy it
\* returns lies in [0,100].  While it runs, total is the sum of the sizes
\* of the batches visited so far.
C9_InferCountsStream ==
    /\ (pc \in InInfer /\ pc # "i_enter") =>
          /\ inf.step <= Len(inf.stream)
          /\ inf.total = SumSeq(SubSeq(inf.stream, 1, inf.step))
          /\ 0 <= inf.correct /\ inf.correct <= inf.total
    /\ (entry = "infer" /\ pc \in {"returned", "raised"}) =>
          /\ pc = "returned"
          /\ inf.total = SumSeq(inf.stream)
          /\ 0 <= inf.correct /\ inf.correct <= inf.total
          /\ Len(ret) = 1 /\ InPercent(ret[1].acc)

\* C10: two calls of main with the same arguments and seed build networks
\* with the same initial parameters, whatever state the generator was in
\* when each was called.
C10_SeedDeterminesInit ==
    (entry = "main" /\ model.built) => model.init = twin.init

\* C11: progress reporting never makes train abort: a train call given the
\* params record main builds does not end in an error raised by the report
\* step (the KeyError of the params lookup).
C11_ReportingNeverAborts ==
    (entry \in {"main", "train"} /\ pc = "raised"
       /\ tr.params \in {MainTrainParams(a) : a \in BOOLEAN})
    => error # "KeyError"

InProfiling == {"m_flops", "m_profile", "m_flops_cost"}

\* C12: once a network exists its parameters change only in the optimizer
\* step of train; the steps of infer, the parameter count and the FLOP
\* profiling leave them as they are, and under main they run only when
\* every train call made has returned.
C12_ParametersChangeOnlyInStep ==
    /\ [][(model.built /\ model'.built
            /\ (model'.updates # model.updates \/ model'.init # model.init))
          => (pc = "t_step" /\ pc' = "t_update"
              /\ model'.updates = model.updates + 1
              /\ model'.init = model.init)]_vars
    /\ []((entry = "main" /\ pc \in InInfer \cup InProfiling \cup {"m_setup"})
          => trainReturns = trainCalls)

\* infer and the profiling have run under main on a network whose
\* parameters are those it was built with
C12_ProfiledUnchanged ==
    /\ entry = "main" /\ pc = "m_write" /\ n_flops > 0 /\ Len(valid) = 1
    /\ model.updates = 0 /\ model.init = preProfile.init

\* the six fields of a result record, under the names main gives them:
\* genome, decoded architecture, parameter count, flop count, validation
\* accuracy, validation loss
ResultRecordFields ==
    {"genome", "genotype", "params", "flops", "valid_acc", "valid_obj"}

\* C13: the record main returns carries the six fields of a result record.
C13_ResultRecordComplete ==
    (entry = "main" /\ pc = "returned")
    => Len(result) = 1 /\ DOMAIN result[1] = ResultRecordFields

\* C14: the mean loss train and infer return is the loss summed over all
\* examples seen divided by the number of examples seen, and the accuracy
\* is 100 * correct / total.
C14_PerExampleMeanLoss ==
    /\ (entry = "train" /\ pc = "returned") =>
          /\ ret[1].loss = Ratio(tr.example_loss, tr.total)
          /\ ret[1].acc = Ratio(100 * tr.correct, tr.total)
    /\ (entry = "infer" /\ pc = "returned") =>
          /\ ret[1].loss = Ratio(inf.example_loss, inf.total)
          /\ ret[1].acc = Ratio(100 * inf.correct, inf.total)

\* the steps of one batch of train, in the order of the loop body
BatchSteps ==
    <<"zero_grad", "forward", "backward", "unscale", "clip", "step", "update">>

\* C16: in train every batch goes through zero_grad, forward and loss
\* (plus auxiliary_weight times the auxiliary loss iff auxiliary is set),
\* scaled backward, unscale, clip, optimizer step, scale update, in this
\* order and once each; clipping never acts on scaled gradients and the
\* optimizer steps at most once per batch.
C16_BatchStepOrder ==
    /\ Len(tr.trace) <= Len(BatchSteps)
    /\ tr.trace = SubSeq(BatchSteps, 1, Len(tr.trace))
    /\ (pc \in {"t_accum", "t_report"}) => tr.trace = BatchSteps
    /\ (pc \in InTrain /\ tr.step > 0) => Len(tr.trace) >= 1
    /\ (pc = "t_loop" /\ tr.step > 0) => tr.trace = BatchSteps
    /\ (error = "KeyError") => tr.trace = BatchSteps
    /\ pc = "t_backward" =>
          tr.loss = IF tr.params.auxiliary
                    THEN FAdd(tr.loss_main,
                              FMulWeight(auxiliary_weight, tr.loss_aux))
                    ELSE tr.loss_main
    /\ tr.clipped_on \in {"none", "unscaled"}
    /\ (Len(tr.trace) >= 5) => tr.clipped_on = "unscaled"
    /\ model.built => model.updates - tr.updates_before \in {0, 1}
    /\ (Len(tr.trace) >= 1 /\ Len(tr.trace) < 6) => model.updates = tr.updates_before

C16_BatchDone ==
    /\ entry = "train" /\ pc = "t_report" /\ tr.step = 1
    /\ tr.params.auxiliary /\ tr.loss = 14
    /\ tr.trace = BatchSteps
    /\ tr.clipped_on = "unscaled"
    /\ model.updates = tr.updates_before + 1

\* C17: the scaler state does not carry across epochs: during the first
\* batch of every train call, up to its scale update, the scale is the
\* initial one and no overflow-free step is counted, whatever the scaler of
\* the call before was left at; and an epoch shorter than the growth window
\* never trains with a scale above the initial one.
C17_ScalerFreshEachCall ==
    /\ (pc \in InTrain \ {"t_enter", "t_accum", "t_report"} /\ tr.step = 0)
       => (tr.scale_exp = init_scale_exp /\ tr.growth_tracker = 0)
    /\ (pc \in InTrain \ {"t_enter"} /\ Len(tr.stream) < growth_interval)
       => tr.scale_exp <= init_scale_exp

C17_SecondEpochAfterOverflow ==
    /\ entry = "train" /\ pc = "t_forward" /\ tr.step = 0
    /\ tr.prev_scale_exp < init_scale_exp
    /\ tr.scale_exp = init_scale_exp /\ tr.growth_tracker = 0

\* C15: two calls of main running at the same time for different genomes
\* share no mutable resource: the summary each one has persisted is its own,
\* as if it had run alone, also when both run with the default arguments.
C15_EvaluationsIsolated ==
    /\ (entry = "main" /\ wroteLog)
       => (Len(logFile) = 1 /\ logFile[1].genome = args.genome)
    /\ (peer.pc = "returned")
       => LET file == IF peer.save = args.save THEN logFile ELSE peer.log
          IN  Len(file) = 1 /\ file[1].genome = peer.genome

====
